---- MODULE Spec2Model ----
(***************************************************************************)
(* Session authentication of the hono-template REST API.                   *)
(*                                                                         *)
(* State: the wall clock (seconds, as jsonwebtoken reads it), the user     *)
(* store and the number of rows ever created in it, the tokens the server  *)
(* has signed for clients that kept them, and one record per               *)
(* in-flight request holding what the Hono Context of that request holds:  *)
(* its cookies, the userId variable, the Set-Cookie headers, the response. *)
(* A request runs authMiddleware synchronously up to its first             *)
(* `await next()`; the downstream handler then resolves or rejects.        *)
(***************************************************************************)
EXTENDS Integers, Sequences, FiniteSets, TLC

VARIABLES now, users, created, issued, reqs, logger

vars == <<now, users, created, issued, reqs, logger>>

----------------------------------------------------------------------------
(* Program constants *)

\* jwt.sign(..., { expiresIn: "1h" }): seconds added to iat
OneHour == 3600

\* jwt.sign(..., { expiresIn: "7d" }): seconds added to iat
SevenDays == 604800

ACCESS_TOKEN_SECRET == "your-super-secret-access-token-key"

REFRESH_TOKEN_SECRET == "your-super-secret-refresh-token-key"

NODE_ENV == "development"

\* cookie options whose access cookie a script of the page can read
cookieOptionsScriptable ==
  [access  |-> [path |-> "/", httpOnly |-> FALSE, secure |-> TRUE, sameSite |-> "strict"],
   refresh |-> [path |-> "/", httpOnly |-> TRUE, secure |-> TRUE, sameSite |-> "strict"]]

cookieOptions ==
  [access  |-> [path |-> "/", httpOnly |-> TRUE, secure |-> TRUE, sameSite |-> "strict"],
   refresh |-> [path |-> "/", httpOnly |-> TRUE, secure |-> TRUE, sameSite |-> "strict"]]

----------------------------------------------------------------------------
(* Bounds of the exploration *)

\* tokens signed at login that may be in circulation (two per login)
MaxIssued == 4

\* last instant of the clock
MaxTime == 608400

\* request contexts that can be alive at once
Reqs == {"r1", "r2"}

\* the contexts a client that sends one request at a time uses
Sequential == {"r1"}

\* instants the clock visits: around the expirations of tokens signed at 0
Instants ==
  {0, OneHour - 1, OneHour, SevenDays - 1, SevenDays,
   SevenDays + OneHour - 2, SevenDays + OneHour - 1, MaxTime}

----------------------------------------------------------------------------
(* Cookie values and JSON web tokens *)

Undefined == "undefined"

\* getCookie found no cookie of that name
Absent == [kind |-> "absent", key |-> "", id |-> "", iat |-> 0, exp |-> 0]

\* a cookie whose value is the empty string
EmptyCookie == [kind |-> "empty", key |-> "", id |-> "", iat |-> 0, exp |-> 0]

\* a string that is not a JWT
Malformed == [kind |-> "malformed", key |-> "", id |-> "", iat |-> 0, exp |-> 0]

\* jwt.sign(payload {id}, secret, {expiresIn}): iat is the clock, exp = iat + expiresIn
JwtSign(id, secret, expiresIn, clock) ==
  [kind |-> "jwt", key |-> secret, id |-> id, iat |-> clock, exp |-> clock + expiresIn]

\* jwt.verify that does not compare the clock with exp
JwtVerifyNoExp(token, secret, clock) ==
  IF token.kind = "jwt" /\ token.key = secret
  THEN [ok |-> TRUE, id |-> token.id]
  ELSE [ok |-> FALSE, id |-> Undefined]

\* jwt.verify that does not check the signature against the key
JwtVerifyAnyKey(token, secret, clock) ==
  IF token.kind = "jwt" /\ clock < token.exp
  THEN [ok |-> TRUE, id |-> token.id]
  ELSE [ok |-> FALSE, id |-> Undefined]

\* jwt.verify that still accepts a token at the instant exp
JwtVerifyInclusive(token, secret, clock) ==
  IF token.kind = "jwt" /\ token.key = secret /\ clock <= token.exp
  THEN [ok |-> TRUE, id |-> token.id]
  ELSE [ok |-> FALSE, id |-> Undefined]

\* jwt.verify(token, secret): throws on a malformed token, on a signature
\* made with another key, and when clock >= exp; otherwise returns the payload
JwtVerify(token, secret, clock) ==
  IF token.kind = "jwt" /\ token.key = secret /\ clock < token.exp
  THEN [ok |-> TRUE, id |-> token.id]
  ELSE [ok |-> FALSE, id |-> Undefined]

\* the `if (accessToken)` / `if (refreshToken)` guards left out
TruthyAlways(cookie) == TRUE

\* JavaScript truthiness of a cookie value: undefined and "" are falsy
Truthy(cookie) == cookie.kind \notin {"absent", "empty"}

\* tokens a client can make without the server's keys
Forged ==
  {JwtSign(u, "attacker-key", SevenDays, 0) : u \in {"u1"}}

----------------------------------------------------------------------------
(* The user store and login *)

\* bcrypt.hash(password): the stored value is not the password
BcryptHash(password) == <<"bcrypt", password>>

\* bcrypt.compare(password, hash)
BcryptCompare(password, hash) == hash = BcryptHash(password)

Emails == {"a@x.io", "b@x.io", "c@x.io", "n@x.io"}

Passwords == {"secret-a", "secret-b"}

\* the password column of a row that has no password (`!user.password`)
NoPassword == <<"null", "">>

\* rows of the user table the database holds when the server starts: two
\* users with a password and one without
SeedUsers ==
  {[id |-> "u1", email |-> "a@x.io", password |-> BcryptHash("secret-a"),
    createdAt |-> 0, updatedAt |-> 0],
   [id |-> "u2", email |-> "b@x.io", password |-> BcryptHash("secret-b"),
    createdAt |-> 0, updatedAt |-> 0],
   [id |-> "u0", email |-> "n@x.io", password |-> NoPassword,
    createdAt |-> 0, updatedAt |-> 0]}

\* prisma.user.findUnique({ where: { email } })
FindByEmail(email) == {u \in users : u.email = email}

\* a login that signs both tokens with the refresh key
LoginTokensOneKey(id, clock) ==
  [accessToken  |-> JwtSign(id, REFRESH_TOKEN_SECRET, OneHour, clock),
   refreshToken |-> JwtSign(id, REFRESH_TOKEN_SECRET, SevenDays, clock)]

\* the two tokens AuthService.login signs for a user at the given instant
LoginTokens(id, clock) ==
  [accessToken  |-> JwtSign(id, ACCESS_TOKEN_SECRET, OneHour, clock),
   refreshToken |-> JwtSign(id, REFRESH_TOKEN_SECRET, SevenDays, clock)]

----------------------------------------------------------------------------
(* Requests: what the Hono Context of one request holds *)

\* c.get("user") before injectUser has set it
NoUser == [id |-> "", email |-> "", createdAt |-> 0, updatedAt |-> 0]

\* route "none" is a protected route whose handler is not looked into; stage
\* is the part of the route's chain that runs when next() is awaited
IdleReq ==
  [pc |-> "idle", accessToken |-> Absent, refreshToken |-> Absent, at |-> 0,
   userId |-> Undefined, setCookies |-> <<>>, verified |-> <<>>,
   nextCalls |-> 0, handlerSaw |-> <<>>, path |-> "none",
   outcome |-> "pending", status |-> 0, body |-> "", logs |-> <<>>,
   route |-> "none", param |-> "", email |-> "", password |-> "",
   stage |-> "none", user |-> NoUser, ran |-> FALSE, fault |-> FALSE,
   dbOps |-> <<>>]

\* Logger.warn / Logger.info: always logged
Log(q, level, message) ==
  [q EXCEPT !.logs = Append(@, [level |-> level, message |-> message])]

\* Logger.debug: logged only when NODE_ENV is "development"
LogDebug(q, message) ==
  IF NODE_ENV = "development" THEN Log(q, "debug", message) ELSE q

\* return c.json({ error: "Unauthorized" }, 401)
Unauthorized(q) ==
  [q EXCEPT !.pc = "done", !.path = "none", !.outcome = "unauthorized",
            !.status = 401, !.body = "Unauthorized"]

\* await next(): the downstream handler starts and reads userId
CallNext(q, path) ==
  [q EXCEPT !.pc = "next", !.path = path, !.nextCalls = @ + 1,
            !.handlerSaw = Append(@, q.userId)]

\* "Both tokens failed": the last two statements of authMiddleware
AllFailed(q) == Unauthorized(Log(q, "warn", "Auth failed - All tokens invalid"))

\* a refresh attempt whose catch block rethrows
RefreshRethrow(q) ==
  [q EXCEPT !.pc = "done", !.path = "none", !.outcome = "error", !.status = 500,
            !.body = "Internal Server Error"]

\* the catch block of the refresh attempt, then the fall through
RefreshCatch(q) ==
  AllFailed(Log(q, "warn", "Auth failed - Invalid refresh token"))

\* a refresh attempt that signs the renewed token with the refresh key
TryRefreshWrongKey(q, clock) ==
  IF Truthy(q.refreshToken)
  THEN LET decoded == JwtVerify(q.refreshToken, REFRESH_TOKEN_SECRET, clock) IN
       IF decoded.ok
       THEN LET newAccessToken ==
                  JwtSign(decoded.id, REFRESH_TOKEN_SECRET, OneHour, clock)
                q1 == [q EXCEPT
                         !.verified = Append(@, [cookie |-> "refreshToken", ok |-> TRUE, at |-> clock]),
                         !.setCookies = Append(@, [name |-> "accessToken",
                                                   value |-> newAccessToken,
                                                   options |-> cookieOptions.access]),
                         !.userId = decoded.id]
            IN CallNext(Log(q1, "info", "Token refreshed successfully"), "refresh")
       ELSE RefreshCatch([q EXCEPT
                            !.verified = Append(@, [cookie |-> "refreshToken", ok |-> FALSE, at |-> clock])])
  ELSE AllFailed(q)

\* a refresh attempt that also renews the refresh token for another 7 days
TryRefreshRotating(q, clock) ==
  IF Truthy(q.refreshToken)
  THEN LET decoded == JwtVerify(q.refreshToken, REFRESH_TOKEN_SECRET, clock) IN
       IF decoded.ok
       THEN LET newAccessToken ==
                  JwtSign(decoded.id, ACCESS_TOKEN_SECRET, OneHour, clock)
                newRefreshToken ==
                  JwtSign(decoded.id, REFRESH_TOKEN_SECRET, SevenDays, clock)
                q1 == [q EXCEPT
                         !.verified = Append(@, [cookie |-> "refreshToken", ok |-> TRUE, at |-> clock]),
                         !.setCookies = Append(Append(@, [name |-> "accessToken",
                                                   value |-> newAccessToken,
                                                   options |-> cookieOptions.access]),
                                               [name |-> "refreshToken",
                                                value |-> newRefreshToken,
                                                options |-> cookieOptions.refresh]),
                         !.userId = decoded.id]
            IN CallNext(Log(q1, "info", "Token refreshed successfully"), "refresh")
       ELSE RefreshCatch([q EXCEPT
                            !.verified = Append(@, [cookie |-> "refreshToken", ok |-> FALSE, at |-> clock])])
  ELSE AllFailed(q)

\* "Try refresh token": from `if (refreshToken)` to the first await or return
TryRefresh(q, clock) ==
  IF Truthy(q.refreshToken)
  THEN LET decoded == JwtVerify(q.refreshToken, REFRESH_TOKEN_SECRET, clock) IN
       IF decoded.ok
       THEN LET newAccessToken ==
                  JwtSign(decoded.id, ACCESS_TOKEN_SECRET, OneHour, clock)
                q1 == [q EXCEPT
                         !.verified = Append(@, [cookie |-> "refreshToken", ok |-> TRUE, at |-> clock]),
                         !.setCookies = Append(@, [name |-> "accessToken",
                                                   value |-> newAccessToken,
                                                   options |-> cookieOptions.access]),
                         !.userId = decoded.id]
            IN CallNext(Log(q1, "info", "Token refreshed successfully"), "refresh")
       ELSE RefreshCatch([q EXCEPT
                            !.verified = Append(@, [cookie |-> "refreshToken", ok |-> FALSE, at |-> clock])])
  ELSE AllFailed(q)

\* the catch block of the access attempt, then the refresh attempt
AccessCatch(q, clock) ==
  TryRefresh(LogDebug(q, "Access token invalid, attempting refresh"), clock)

\* an access attempt that renews the access cookie on every success
TryAccessSliding(q, clock) ==
  IF Truthy(q.accessToken)
  THEN LET decoded == JwtVerify(q.accessToken, ACCESS_TOKEN_SECRET, clock) IN
       IF decoded.ok
       THEN CallNext([q EXCEPT
                        !.verified = Append(@, [cookie |-> "accessToken", ok |-> TRUE, at |-> clock]),
                        !.setCookies = Append(@, [name |-> "accessToken",
                                                  value |-> JwtSign(decoded.id, ACCESS_TOKEN_SECRET, OneHour, clock),
                                                  options |-> cookieOptions.access]),
                        !.userId = decoded.id], "access")
       ELSE AccessCatch([q EXCEPT
                           !.verified = Append(@, [cookie |-> "accessToken", ok |-> FALSE, at |-> clock])],
                        clock)
  ELSE TryRefresh(q, clock)

\* "Try access token first": from `if (accessToken)` to the first await or return
TryAccess(q, clock) ==
  IF Truthy(q.accessToken)
  THEN LET decoded == JwtVerify(q.accessToken, ACCESS_TOKEN_SECRET, clock) IN
       IF decoded.ok
       THEN CallNext([q EXCEPT
                        !.verified = Append(@, [cookie |-> "accessToken", ok |-> TRUE, at |-> clock]),
                        !.userId = decoded.id], "access")
       ELSE AccessCatch([q EXCEPT
                           !.verified = Append(@, [cookie |-> "accessToken", ok |-> FALSE, at |-> clock])],
                        clock)
  ELSE TryRefresh(q, clock)

\* a middleware whose first rejection names its cause
authMiddlewareTellsCause(q, clock) ==
  IF ~Truthy(q.accessToken) /\ ~Truthy(q.refreshToken)
  THEN [Unauthorized(Log(q, "warn", "Auth failed - No tokens provided"))
          EXCEPT !.body = "No tokens provided"]
  ELSE TryAccess(q, clock)

\* authMiddleware from its first line to its first await or return
authMiddleware(q, clock) ==
  IF ~Truthy(q.accessToken) /\ ~Truthy(q.refreshToken)
  THEN Unauthorized(Log(q, "warn", "Auth failed - No tokens provided"))
  ELSE TryAccess(q, clock)

----------------------------------------------------------------------------
(* The Logger and its files *)

\* seconds of one UTC day: new Date().toISOString().split("T")[0] changes
\* when the clock passes a multiple of it
SecondsPerDay == 86400

\* LogLevel
Levels == {"info", "warn", "error", "debug"}

\* the date in a log file's name, as the number of the UTC day
Today(clock) == clock \div SecondsPerDay

\* the lines of a log file; a file that was never written has none
FileContent(files, filename) ==
  IF filename \in DOMAIN files THEN files[filename] ELSE <<>>

\* Logger.formatLog: the entry with the timestamp of the moment, as one line
formatLog(entry, clock) == [entry EXCEPT !.timestamp = clock]

\* Logger.writeToFile: appendFileSync to `${today}-${level}.log`, which creates
\* the file when it is missing; a failed write is reported on the console only
writeToFile(files, clock, level, content, ok) ==
  LET filename == <<Today(clock), level>> IN
    IF ok
    THEN [n \in DOMAIN files \cup {filename} |->
            IF n = filename THEN Append(FileContent(files, n), content)
            ELSE files[n]]
    ELSE files

\* a log that writes the combined file first and then every level's entry to
\* the warn file
LoggerLogAllToWarn(lg, clocks, level, message, ok) ==
  LET entry == [timestamp |-> clocks[1], level |-> level, message |-> message]
      combined == writeToFile(lg.files, clocks[2], "info", formatLog(entry, clocks[2]), ok[2])
      own == writeToFile(combined, clocks[1], "warn", formatLog(entry, clocks[1]), ok[1])
  IN [files |-> own,
      calls |-> Append(lg.calls, [level |-> level, message |-> message,
                                  day |-> Today(clocks[1]),
                                  infoDay |-> Today(clocks[2]), wrote |-> ok])]

\* Logger.log: the entry goes to the file of its level and then to the info
\* file, each write reading the clock for itself; calls keeps the calls made
\* so far, the days of their two writes and how the writes ended
LoggerLog(lg, clocks, level, message, ok) ==
  LET entry == [timestamp |-> clocks[1], level |-> level, message |-> message]
      own == writeToFile(lg.files, clocks[1], level, formatLog(entry, clocks[1]), ok[1])
      combined == writeToFile(own, clocks[2], "info", formatLog(entry, clocks[2]), ok[2])
  IN [files |-> combined,
      calls |-> Append(lg.calls, [level |-> level, message |-> message,
                                  day |-> Today(clocks[1]),
                                  infoDay |-> Today(clocks[2]), wrote |-> ok])]

\* the level Logger.request gives a status code
RequestLevel(statusCode) ==
  IF statusCode >= 400 THEN "error" ELSE IF statusCode >= 300 THEN "warn" ELSE "info"

\* the logs directory when the server starts: no file of the days to come
NoLogs == [files |-> <<>>, calls |-> <<>>]

----------------------------------------------------------------------------
(* Actions *)

\* every cookie value a client can send: nothing, junk, a forgery, or a token
\* the server signed (at login, or renewed in a response not yet delivered)
CookieValues ==
  {Absent, EmptyCookie, Malformed} \cup Forged \cup issued
  \cup {reqs[r].setCookies[i].value :
          r \in {x \in Reqs : Len(reqs[x].setCookies) > 0}, i \in {1}}

Init ==
  /\ now = 0
  /\ users = SeedUsers
  /\ created = 0
  /\ issued = {}
  /\ reqs = [r \in Reqs |-> IdleReq]
  /\ logger = NoLogs

\* the clock advances
Tick(t) ==
  /\ t > now
  /\ t <= MaxTime
  /\ now' = t
  /\ UNCHANGED <<users, created, issued, reqs, logger>>

\* POST /auth/login with a registered email and its password: both tokens are
\* signed and set as cookies; the client holds them from then on
Login(email, password) ==
  \E user \in FindByEmail(email) :
    /\ BcryptCompare(password, user.password)
    /\ LET t == LoginTokens(user.id, now) IN
         /\ Cardinality(issued \cup {t.accessToken, t.refreshToken}) <= MaxIssued
         /\ issued' = issued \cup {t.accessToken, t.refreshToken}
    /\ issued' # issued
    /\ UNCHANGED <<logger, now, users, created, reqs>>

\* a request arrives whose handler reads a userId kept in one variable shared
\* by all requests instead of its own Context
RequestSharedUserId(r, accessToken, refreshToken) ==
  /\ reqs[r].pc = "idle"
  /\ LET q == authMiddleware([IdleReq EXCEPT !.accessToken = accessToken,
                                             !.refreshToken = refreshToken,
                                             !.at = now], now)
         others == {x \in Reqs \ {r} : reqs[x].userId # Undefined}
     IN reqs' = [reqs EXCEPT ![r] =
          IF q.pc = "next" /\ others # {}
          THEN [q EXCEPT !.handlerSaw = <<reqs[CHOOSE x \in others : TRUE].userId>>]
          ELSE q]
  /\ UNCHANGED <<logger, now, users, created, issued>>

\* a request with the given cookies arrives at a protected route
Request(r, accessToken, refreshToken) ==
  /\ reqs[r].pc = "idle"
  /\ reqs' = [reqs EXCEPT ![r] =
       authMiddleware([IdleReq EXCEPT !.accessToken = accessToken,
                                      !.refreshToken = refreshToken,
                                      !.at = now], now)]
  /\ UNCHANGED <<logger, now, users, created, issued>>

\* the promise of next() resolves: authMiddleware returns
NextResolves(r) ==
  /\ reqs[r].pc = "next"
  /\ reqs' = [reqs EXCEPT ![r] =
       [@ EXCEPT !.pc = "done", !.path = "none", !.outcome = "proceeded"]]
  /\ UNCHANGED <<logger, now, users, created, issued>>

\* the promise of next() rejects: the enclosing try block catches it
NextRejects(r) ==
  /\ reqs[r].pc = "next"
  /\ reqs' = [reqs EXCEPT ![r] =
       IF @.path = "access" THEN AccessCatch(@, now) ELSE RefreshCatch(@)]
  /\ UNCHANGED <<logger, now, users, created, issued>>

\* the tokens the Set-Cookie headers of a response carry
TokensSet(q) ==
  {q.setCookies[i].value :
     i \in {j \in 1..Len(q.setCookies) : q.setCookies[j].value.kind = "jwt"}}

\* the response is delivered and the Context discarded; the client may keep
\* the tokens the response sets
Respond(r, keep) ==
  /\ reqs[r].pc = "done"
  /\ reqs' = [reqs EXCEPT ![r] = IdleReq]
  /\ IF keep
     THEN /\ ~(TokensSet(reqs[r]) \subseteq issued)
          /\ Cardinality(issued \cup TokensSet(reqs[r])) <= MaxIssued
          /\ issued' = issued \cup TokensSet(reqs[r])
     ELSE issued' = issued
  /\ UNCHANGED <<logger, now, users, created>>

Next ==
  \/ \E t \in Instants : Tick(t)
  \/ \E email \in Emails, password \in Passwords : Login(email, password)
  \/ \E r \in Sequential, a \in CookieValues, t \in CookieValues : Request(r, a, t)
  \/ \E r \in Reqs : NextResolves(r)
  \/ \E r \in Reqs : NextRejects(r)
  \/ \E r \in Reqs, keep \in BOOLEAN : Respond(r, keep)

Spec == Init /\ [][Next]_vars

----------------------------------------------------------------------------
(* Two requests in flight at once *)

\* instants at which concurrent requests are observed: with fresh tokens and
\* with the access tokens of the first hour expired
ConcInstants == {OneHour}

NextConc ==
  \/ \E t \in ConcInstants : Tick(t)
  \/ \E email \in Emails, password \in Passwords : Login(email, password)
  \/ \E r \in Reqs, a \in CookieValues, t \in CookieValues : Request(r, a, t)
  \/ \E r \in Reqs : NextResolves(r)
  \/ \E r \in Reqs : NextRejects(r)
  \/ \E r \in Reqs : Respond(r, FALSE)

SpecConc == Init /\ [][NextConc]_vars

----------------------------------------------------------------------------
(* The routes of /api/v1 and the user table behind them *)

\* ids the database gives to the rows it creates, in order; none is used twice
NewIds == <<"u3">>

\* path parameters the clients name: a seeded user and an id no row has
ParamIds == {"u2", "u9"}

\* request bodies: emails the schemas accept, and one they reject
BodyEmails == {"b@x.io", "c@x.io", "n@x.io", "not-an-email"}

\* z.email() / z.string().email()
EmailShaped(email) == email \in Emails

\* the lengths of the passwords requests carry
PasswordLength == [p \in Passwords \cup {"12345"} |-> IF p = "12345" THEN 5 ELSE 8]

BodyPasswords == DOMAIN PasswordLength

\* z.string().min(6) on the password
MinPassword == 6

\* CreateUserSchema / RegisterSchema / LoginSchema on the fields the model keeps
ValidCredentials(email, password) ==
  EmailShaped(email) /\ PasswordLength[password] >= MinPassword

\* UpdateUserSchema: the email is optional ("" stands for a body without it)
ValidUpdate(email) == email = "" \/ EmailShaped(email)

\* prisma.user.findUnique({ where: { id } })
FindById(id) == {u \in users : u.id = id}

\* the unique index on User.email: a write that would give a second row the
\* same email fails with P2002
EmailTaken(email, exceptId) ==
  \E u \in users : u.email = email /\ u.id # exceptId

\* select: { id, email, createdAt, updatedAt } of ProfileService.getProfile
Profile(row) ==
  [id |-> row.id, email |-> row.email, createdAt |-> row.createdAt,
   updatedAt |-> row.updatedAt]

UserRoutes ==
  {"GET /users", "POST /users", "GET /users/:id", "PUT /users/:id",
   "DELETE /users/:id"}

ProfileRoutes == {"GET /profile"}

AuthRoutes == {"POST /auth/login", "POST /auth/register", "POST /auth/logout"}

Routes == UserRoutes \cup ProfileRoutes \cup AuthRoutes

\* a wiring whose /users routes have no middleware in front of them
ChainOpenUsers(route) ==
  IF route \in ProfileRoutes
  THEN <<"authMiddleware", "injectUser">>
  ELSE IF route = "POST /auth/logout"
  THEN <<"authMiddleware">>
  ELSE <<>>

\* the middleware registered in front of a route's handler, in order
Chain(route) ==
  IF route \in UserRoutes \cup ProfileRoutes
  THEN <<"authMiddleware", "injectUser">>
  ELSE IF route = "POST /auth/logout"
  THEN <<"authMiddleware">>
  ELSE <<>>

Registered(chain, middleware) == \E i \in 1..Len(chain) : chain[i] = middleware

\* Hono dispatches a request: the chain runs up to its first await or return
Dispatch(q, chain, clock) ==
  LET q1 == IF Registered(chain, "authMiddleware")
            THEN authMiddleware(q, clock)
            ELSE [q EXCEPT !.pc = "next"]
  IN IF q1.pc = "next"
     THEN [q1 EXCEPT !.stage = IF Registered(chain, "injectUser")
                               THEN "inject" ELSE "handler"]
     ELSE q1

\* one database call made for the request, and who made it
DbOp(q, by, op) == [q EXCEPT !.dbOps = Append(@, [by |-> by, op |-> op])]

\* return c.json(body, status): the response is ready and every next()
\* awaited above it resolves
Reply(q, status, body) ==
  [q EXCEPT !.pc = "done", !.path = "none", !.stage = "end",
            !.outcome = IF q.nextCalls > 0 THEN "proceeded" ELSE "public",
            !.status = status, !.body = body]

\* the route handler starts
Handle(q) == [q EXCEPT !.ran = TRUE]

\* setCookie(c, name, value, options)
SetCookie(q, name, value, options) ==
  [q EXCEPT !.setCookies = Append(@, [name |-> name, value |-> value,
                                      options |-> options])]

\* deleteCookie(c, name, options): an empty value that expires at once
DeleteCookie(q, name, options) ==
  [q EXCEPT !.setCookies =
     Append(@, [name |-> name, value |-> EmptyCookie,
                options |-> [path |-> options.path, httpOnly |-> options.httpOnly,
                             secure |-> options.secure,
                             sameSite |-> options.sameSite, maxAge |-> 0]])]

\* an injectUser that calls the handler also when no user has the id
injectUserUnchecked(q, fault) ==
  IF q.userId = Undefined
  THEN Reply(Log(q, "warn", "User injection failed - No user ID in context"),
             401, "Unauthorized")
  ELSE LET q1 == DbOp(q, "injectUser", "findUnique") IN
       IF fault
       THEN Reply(Log(q1, "error", "User injection middleware error"),
                  500, "Internal server error")
       ELSE [LogDebug(q1, "User injected into context")
               EXCEPT !.user = IF FindById(q.userId) = {} THEN NoUser
                               ELSE Profile(CHOOSE u \in FindById(q.userId) : TRUE),
                      !.stage = "handler"]

\* injectUser from its first line to next() or its return
injectUser(q, fault) ==
  IF q.userId = Undefined
  THEN Reply(Log(q, "warn", "User injection failed - No user ID in context"),
             401, "Unauthorized")
  ELSE LET q1 == DbOp(q, "injectUser", "findUnique") IN
       IF fault
       THEN Reply(Log(q1, "error", "User injection middleware error"),
                  500, "Internal server error")
       ELSE IF FindById(q.userId) = {}
       THEN Reply(Log(Log(q1, "warn", "User injection failed - User not found"),
                      "warn", "User injection failed - User not found"),
                  404, "User not found")
       ELSE [LogDebug(q1, "User injected into context")
               EXCEPT !.user = Profile(CHOOSE u \in FindById(q.userId) : TRUE),
                      !.stage = "handler"]

\* the value the password column holds when a string is written to it as is
Stored(password) == <<"text", password>>

\* a login that does not compare the password
AuthServiceLoginAnyPassword(email, password, clock) ==
  IF FindByEmail(email) = {}
  THEN [ok |-> FALSE, cause |-> "User not registered", tokens |-> LoginTokens("", 0)]
  ELSE LET user == CHOOSE u \in FindByEmail(email) : TRUE IN
       [ok |-> TRUE, cause |-> "", tokens |-> LoginTokens(user.id, clock)]

\* AuthService.login: the tokens, or the cause of the error it throws
AuthServiceLogin(email, password, clock) ==
  IF FindByEmail(email) = {}
  THEN [ok |-> FALSE, cause |-> "User not registered", tokens |-> LoginTokens("", 0)]
  ELSE LET user == CHOOSE u \in FindByEmail(email) : TRUE IN
       IF user.password = NoPassword
       THEN [ok |-> FALSE, cause |-> "Invalid password", tokens |-> LoginTokens("", 0)]
       ELSE IF ~BcryptCompare(password, user.password)
       THEN [ok |-> FALSE, cause |-> "Invalid password", tokens |-> LoginTokens("", 0)]
       ELSE [ok |-> TRUE, cause |-> "", tokens |-> LoginTokens(user.id, clock)]

\* the id of the next row the database creates (no row is created once the
\* ids are used up)
NextId == IF created < Len(NewIds) THEN NewIds[created + 1] ELSE "none-left"

\* the row prisma.user.create inserts
NewRow(email, password, clock) ==
  [id |-> NextId, email |-> email, password |-> password,
   createdAt |-> clock, updatedAt |-> clock]

\* cookies a client of the API sends: none, junk, or the pair of one login
ClientCookies ==
  {<<Absent, Absent>>, <<Malformed, Malformed>>}
  \cup {<<a, t>> : a \in {x \in issued : x.key = ACCESS_TOKEN_SECRET},
                   t \in {x \in issued : x.key = REFRESH_TOKEN_SECRET}}

\* a request arrives at a route of /api/v1
ApiRequest(r, route, param, email, password, cookies) ==
  /\ reqs[r].pc = "idle"
  /\ (param # "") = (route \in {"GET /users/:id", "PUT /users/:id", "DELETE /users/:id"})
  /\ IF route \in {"POST /users", "POST /auth/login", "POST /auth/register"}
     THEN email # "" /\ password # ""
     ELSE IF route = "PUT /users/:id" THEN password = ""
     ELSE email = "" /\ password = ""
  /\ Chain(route) = <<>> => cookies = <<Absent, Absent>>
  /\ reqs' = [reqs EXCEPT ![r] =
       Dispatch([IdleReq EXCEPT !.route = route, !.param = param,
                                !.email = email, !.password = password,
                                !.accessToken = cookies[1],
                                !.refreshToken = cookies[2], !.at = now],
                Chain(route), now)]
  /\ UNCHANGED <<logger, now, users, created, issued>>

\* injectUser runs for a request authMiddleware let through
InjectUser(r, fault) ==
  /\ reqs[r].pc = "next"
  /\ reqs[r].stage = "inject"
  /\ reqs' = [reqs EXCEPT ![r] = injectUser([@ EXCEPT !.fault = fault], fault)]
  /\ UNCHANGED <<logger, now, users, created, issued>>

\* the handler of the route is the next thing to run for the request
Ready(r, route) ==
  /\ reqs[r].pc = "next"
  /\ reqs[r].stage = "handler"
  /\ reqs[r].route = route

\* the password userService.createUser writes: validatedData.password as it is
CreateUserPassword(password) == Stored(password)

\* a register that writes the password as it was submitted
RegisterPasswordAsGiven(password) == Stored(password)

\* the password AuthService.register writes: bcrypt.hash(password, 12)
RegisterPassword(password) == BcryptHash(password)

\* prisma.user.update({ where: { id }, data }): the error code it throws, or
\* the rows of the table afterwards
PrismaUpdate(id, email, clock) ==
  IF FindById(id) = {}
  THEN [code |-> "P2025", rows |-> users]
  ELSE IF email # "" /\ EmailTaken(email, id)
  THEN [code |-> "P2002", rows |-> users]
  ELSE LET row == CHOOSE u \in FindById(id) : TRUE IN
       [code |-> "",
        rows |-> (users \ {row}) \cup
                 {[row EXCEPT !.email = IF email = "" THEN @ ELSE email,
                              !.updatedAt = clock]}]

\* prisma.user.delete({ where: { id } })
PrismaDelete(id) ==
  IF FindById(id) = {}
  THEN [code |-> "P2025", rows |-> users]
  ELSE [code |-> "", rows |-> users \ FindById(id)]

\* prisma.user.create({ data }): fails on a second row with the same email
PrismaCreate(email, password, clock) ==
  IF EmailTaken(email, "")
  THEN [code |-> "P2002", rows |-> users]
  ELSE [code |-> "", rows |-> users \cup {NewRow(email, password, clock)}]

\* the handler's reply and the table after the handler, for a row it creates
Created(r, q, result, status, body) ==
  /\ result.code = "" => created < Len(NewIds)
  /\ users' = result.rows
  /\ created' = IF result.code = "" THEN created + 1 ELSE created
  /\ reqs' = [reqs EXCEPT ![r] = Reply(q, status, body)]

\* a handler that leaves the table alone replies
Answer(r, q, status, body) ==
  /\ reqs' = [reqs EXCEPT ![r] = Reply(q, status, body)]
  /\ UNCHANGED <<users, created>>

\* GET /users
GetUsers(r, fault) ==
  /\ Ready(r, "GET /users")
  /\ LET q == DbOp(Handle([reqs[r] EXCEPT !.fault = fault]), "handler", "findMany") IN
       IF fault THEN Answer(r, q, 500, "Fail ed to fetch users")
       ELSE Answer(r, q, 200, "users")
  /\ UNCHANGED <<logger, now, issued>>

\* POST /users
PostUsers(r, fault) ==
  /\ Ready(r, "POST /users")
  /\ LET q0 == Handle([reqs[r] EXCEPT !.fault = fault])
         q == DbOp(q0, "handler", "create")
         result == PrismaCreate(q.email, CreateUserPassword(q.password), now)
     IN IF ~ValidCredentials(q.email, q.password)
        THEN Answer(r, q0, 400, "Invalid request data")
        ELSE IF fault \/ result.code # ""
        THEN Answer(r, q, 500, "Failed to create user")
        ELSE Created(r, q, result, 201, "success")
  /\ UNCHANGED <<logger, now, issued>>

\* GET /users/:id
GetUserById(r, fault) ==
  /\ Ready(r, "GET /users/:id")
  /\ LET q == DbOp(Handle([reqs[r] EXCEPT !.fault = fault]), "handler", "findUnique") IN
       IF fault THEN Answer(r, q, 500, "Failed to fetch user")
       ELSE IF FindById(q.param) = {} THEN Answer(r, q, 404, "User not found")
       ELSE Answer(r, q, 200, "user")
  /\ UNCHANGED <<logger, now, issued>>

\* PUT /users/:id
PutUser(r, fault) ==
  /\ Ready(r, "PUT /users/:id")
  /\ LET q0 == Handle([reqs[r] EXCEPT !.fault = fault])
         q == DbOp(q0, "handler", "update")
         result == PrismaUpdate(q.param, q.email, now)
     IN IF ~ValidUpdate(q.email)
        THEN Answer(r, q0, 400, "Invalid request data")
        ELSE IF fault \/ result.code # ""
        THEN Answer(r, q, 500, "Failed to update user")
        ELSE /\ users' = result.rows
             /\ reqs' = [reqs EXCEPT ![r] = Reply(q, 200, "success")]
             /\ UNCHANGED created
  /\ UNCHANGED <<logger, now, issued>>

\* DELETE /users/:id
DeleteUser(r, fault) ==
  /\ Ready(r, "DELETE /users/:id")
  /\ LET q == DbOp(Handle([reqs[r] EXCEPT !.fault = fault]), "handler", "delete")
         result == PrismaDelete(q.param)
     IN IF fault \/ result.code # ""
        THEN Answer(r, q, 500, "Failed to delete user")
        ELSE /\ users' = result.rows
             /\ reqs' = [reqs EXCEPT ![r] = Reply(q, 200, "success")]
             /\ UNCHANGED created
  /\ UNCHANGED <<logger, now, issued>>

\* GET /profile: withUser reads the user from the context, then the handler
GetProfile(r) ==
  /\ Ready(r, "GET /profile")
  /\ IF reqs[r].user = NoUser
     THEN Answer(r, reqs[r], 500, "Internal Server Error")
     ELSE Answer(r, Log(Handle(reqs[r]), "info", "Profile accessed"), 200, "profile")
  /\ UNCHANGED <<logger, now, issued>>

\* a logout handler that deletes the refresh cookie only
logoutRefreshOnly(q) ==
  DeleteCookie(Handle(q), "refreshToken", cookieOptions.refresh)

\* the logout handler up to its return: both cookies are deleted
logout(q) ==
  DeleteCookie(DeleteCookie(Handle(q), "accessToken", cookieOptions.access),
               "refreshToken", cookieOptions.refresh)

\* POST /auth/logout
PostLogout(r, fault) ==
  /\ Ready(r, "POST /auth/logout")
  /\ LET q == logout([reqs[r] EXCEPT !.fault = fault]) IN
       IF fault THEN Answer(r, q, 500, "Failed to update user")
       ELSE Answer(r, Log(q, "info", "User logged out successfully"), 201, "success")
  /\ UNCHANGED <<logger, now, issued>>

\* setCookie of both tokens, in the order of the login and register handlers
SetTokens(q, tokens) ==
  SetCookie(SetCookie(q, "accessToken", tokens.accessToken, cookieOptions.access),
            "refreshToken", tokens.refreshToken, cookieOptions.refresh)

\* POST /auth/login
PostLogin(r, fault) ==
  /\ Ready(r, "POST /auth/login")
  /\ LET q0 == Handle([reqs[r] EXCEPT !.fault = fault])
         q == DbOp(q0, "handler", "findUnique")
         result == AuthServiceLogin(q.email, q.password, now)
     IN IF ~ValidCredentials(q.email, q.password)
        THEN Answer(r, q0, 400, "Invalid request data")
        ELSE IF fault THEN Answer(r, q, 500, "Failed to login user")
        ELSE IF result.cause = "User not registered"
        THEN Answer(r, q, 404, "User not registered")
        ELSE IF result.cause = "Invalid password"
        THEN Answer(r, q, 401, "Invalid password")
        ELSE Answer(r, SetTokens(q, result.tokens), 201, "success")
  /\ UNCHANGED <<logger, now, issued>>

\* a register that rethrows the database error as it is
RegisterErrorRethrown(code) == code

\* the error AuthService.register throws for the code prisma failed with
RegisterError(code) == IF code = "P2002" THEN "User already exists" ELSE code

\* POST /auth/register
PostRegister(r, fault) ==
  /\ Ready(r, "POST /auth/register")
  /\ LET q0 == Handle([reqs[r] EXCEPT !.fault = fault])
         q == DbOp(q0, "handler", "create")
         result == PrismaCreate(q.email, RegisterPassword(q.password), now)
     IN IF ~ValidCredentials(q.email, q.password)
        THEN Answer(r, q0, 400, "Invalid request data")
        ELSE IF ~fault /\ RegisterError(result.code) = "User already exists"
        THEN Answer(r, q, 409, "User already exists")
        ELSE IF fault \/ result.code # ""
        THEN Answer(r, q, 500, "Failed to create user")
        ELSE Created(r, SetTokens(q, LoginTokens(NextId, now)),
                     result, 201, "success")
  /\ UNCHANGED <<logger, now, issued>>

\* instants at which the API is exercised: before and after the access tokens
\* of the first hour expire
ApiInstants == {OneHour}

NextApi ==
  \/ \E t \in ApiInstants : Tick(t)
  \/ \E route \in Routes, param \in ParamIds \cup {""},
        email \in BodyEmails \cup {""}, password \in BodyPasswords \cup {""},
        cookies \in ClientCookies :
       ApiRequest("r1", route, param, email, password, cookies)
  \/ \E fault \in BOOLEAN : InjectUser("r1", fault)
  \/ \E fault \in BOOLEAN : GetUsers("r1", fault)
  \/ \E fault \in BOOLEAN : PostUsers("r1", fault)
  \/ \E fault \in BOOLEAN : GetUserById("r1", fault)
  \/ \E fault \in BOOLEAN : PutUser("r1", fault)
  \/ \E fault \in BOOLEAN : DeleteUser("r1", fault)
  \/ GetProfile("r1")
  \/ \E fault \in BOOLEAN : PostLogout("r1", fault)
  \/ \E fault \in BOOLEAN : PostLogin("r1", fault)
  \/ \E fault \in BOOLEAN : PostRegister("r1", fault)
  \/ \E keep \in BOOLEAN : Respond("r1", keep)

SpecApi == Init /\ [][NextApi]_vars

----------------------------------------------------------------------------
(* Calls of the Logger *)

\* calls of the Logger that are followed
MaxLog == 2

\* the two writes of one call each succeed or fail
WriteOutcomes == BOOLEAN \X BOOLEAN

\* the clock passes midnight once
LogInstants == {SecondsPerDay}

\* what the clock can show at the second write of a call that began now
Later == {now} \cup {t \in LogInstants : t > now}

\* status codes Logger.request is called with
StatusCodes == {201, 302, 404}

\* the message Logger.request builds
RequestMessage(statusCode) ==
  IF statusCode = 201 THEN "POST /api/users - 201"
  ELSE IF statusCode = 302 THEN "POST /api/users - 302"
  ELSE "POST /api/users - 404"

\* logger.info(message)
LoggerInfo(ok, later) ==
  /\ Len(logger.calls) < MaxLog
  /\ logger' = LoggerLog(logger, <<now, later>>, "info", "Login attempt", ok)
  /\ now' = later
  /\ UNCHANGED <<users, created, issued, reqs>>

\* logger.warn(message)
LoggerWarn(ok, later) ==
  /\ Len(logger.calls) < MaxLog
  /\ logger' = LoggerLog(logger, <<now, later>>, "warn", "Auth failed - No tokens provided", ok)
  /\ now' = later
  /\ UNCHANGED <<users, created, issued, reqs>>

\* logger.error(message)
LoggerError(ok, later) ==
  /\ Len(logger.calls) < MaxLog
  /\ logger' = LoggerLog(logger, <<now, later>>, "error", "User injection middleware error", ok)
  /\ now' = later
  /\ UNCHANGED <<users, created, issued, reqs>>

\* logger.debug(message): logs in development only
LoggerDebug(ok, later) ==
  /\ Len(logger.calls) < MaxLog
  /\ NODE_ENV = "development"
  /\ logger' = LoggerLog(logger, <<now, later>>, "debug", "User injected into context", ok)
  /\ now' = later
  /\ UNCHANGED <<users, created, issued, reqs>>

\* logger.request(method, url, statusCode, responseTime)
LoggerRequest(statusCode, ok, later) ==
  /\ Len(logger.calls) < MaxLog
  /\ logger' = LoggerLog(logger, <<now, later>>, RequestLevel(statusCode),
                         RequestMessage(statusCode), ok)
  /\ now' = later
  /\ UNCHANGED <<users, created, issued, reqs>>

NextLog ==
  \/ \E t \in LogInstants : Tick(t)
  \/ \E ok \in WriteOutcomes, later \in Later : LoggerInfo(ok, later)
  \/ \E ok \in WriteOutcomes, later \in Later : LoggerWarn(ok, later)
  \/ \E ok \in WriteOutcomes, later \in Later : LoggerError(ok, later)
  \/ \E ok \in WriteOutcomes, later \in Later : LoggerDebug(ok, later)
  \/ \E statusCode \in StatusCodes, ok \in WriteOutcomes, later \in Later :
       LoggerRequest(statusCode, ok, later)

SpecLog == Init /\ [][NextLog]_vars

----------------------------------------------------------------------------
(* Properties of authMiddleware *)

\* the cookie is a token signed with the key and not expired at the instant
SignedAndFresh(cookie, secret, clock) ==
  cookie.kind = "jwt" /\ cookie.key = secret /\ clock < cookie.exp

\* the request's access token was valid when the request arrived
ValidAccess(q) == SignedAndFresh(q.accessToken, ACCESS_TOKEN_SECRET, q.at)

\* the request's refresh token was valid when the request arrived
ValidRefresh(q) == SignedAndFresh(q.refreshToken, REFRESH_TOKEN_SECRET, q.at)

\* the request has been received and its context not yet discarded
Alive(q) == q.pc # "idle"

\* the verification attempts made on one of the two cookies
Attempts(q, cookie) ==
  {i \in 1..Len(q.verified) : q.verified[i].cookie = cookie}

\* C1: a request with a valid, unexpired access token proceeds to the handler
\* with the userId of that token, and the middleware writes no accessToken
\* cookie, whatever the refreshToken cookie holds.
ClaimC1 ==
  \A r \in Reqs :
    LET q == reqs[r] IN
      (Alive(q) /\ ValidAccess(q)) =>
        /\ q.nextCalls >= 1
        /\ q.handlerSaw[1] = q.accessToken.id
        /\ q.setCookies = <<>>

\* C2: when the access token is absent, expired or invalid and the refresh
\* token is valid, the handler runs with the refresh token's id and one new
\* accessToken cookie is written: signed with the access key, for the same id,
\* expiring one hour after the request.
TheoremC2 ==
  \A r \in Reqs :
    LET q == reqs[r] IN
      (Alive(q) /\ ~ValidAccess(q) /\ ValidRefresh(q)) =>
        /\ q.nextCalls = 1
        /\ q.handlerSaw = <<q.refreshToken.id>>
        /\ q.userId = q.refreshToken.id
        /\ q.setCookies =
             <<[name |-> "accessToken",
                value |-> [kind |-> "jwt", key |-> ACCESS_TOKEN_SECRET,
                           id |-> q.refreshToken.id, iat |-> q.at,
                           exp |-> q.at + OneHour],
                options |-> cookieOptions.access]>>

\* an expired access token of u1 was renewed from a valid refresh token and
\* the handler has returned
WitnessC2 ==
  \E r \in Reqs :
    LET q == reqs[r] IN
      /\ q.pc = "done" /\ q.outcome = "proceeded"
      /\ q.accessToken.kind = "jwt" /\ q.accessToken.key = ACCESS_TOKEN_SECRET
      /\ q.accessToken.exp <= q.at
      /\ ValidRefresh(q) /\ q.refreshToken.id = "u1"
      /\ Len(q.setCookies) = 1

\* C3: a request with neither cookie is answered 401 at once: the handler is
\* not invoked, nothing is verified, no cookie is set.
TheoremC3 ==
  \A r \in Reqs :
    LET q == reqs[r] IN
      (Alive(q) /\ q.accessToken = Absent /\ q.refreshToken = Absent) =>
        /\ q.pc = "done" /\ q.outcome = "unauthorized" /\ q.status = 401
        /\ q.nextCalls = 0
        /\ q.verified = <<>>
        /\ q.setCookies = <<>>

\* a request without cookies has been answered
WitnessC3 ==
  \E r \in Reqs :
    /\ reqs[r].pc = "done"
    /\ reqs[r].accessToken = Absent /\ reqs[r].refreshToken = Absent
    /\ reqs[r].status = 401

\* C4: when the access token is expired or invalid and the refresh token is
\* expired, invalid or absent, the answer is 401: the handler is not invoked,
\* userId is not set, no cookie is set.
TheoremC4 ==
  \A r \in Reqs :
    LET q == reqs[r] IN
      (Alive(q) /\ q.accessToken # Absent /\ ~ValidAccess(q) /\ ~ValidRefresh(q)) =>
        /\ q.pc = "done" /\ q.outcome = "unauthorized" /\ q.status = 401
        /\ q.nextCalls = 0
        /\ q.userId = Undefined
        /\ q.setCookies = <<>>

\* both tokens of a login were presented after both had expired
WitnessC4 ==
  \E r \in Reqs :
    LET q == reqs[r] IN
      /\ q.pc = "done" /\ q.status = 401
      /\ q.accessToken.kind = "jwt" /\ q.accessToken.key = ACCESS_TOKEN_SECRET
      /\ q.accessToken.exp <= q.at
      /\ q.refreshToken.kind = "jwt" /\ q.refreshToken.key = REFRESH_TOKEN_SECRET
      /\ q.refreshToken.exp <= q.at

\* C5: the access token is verified before the refresh token, and the refresh
\* token is verified only when the access token is absent or failed
\* verification; with a valid access token of u1 and a valid refresh token of
\* u2 the request runs as u1 and the refresh token is not consulted.
ClaimC5 ==
  \A r \in Reqs :
    LET q == reqs[r] IN
      /\ \A i \in Attempts(q, "refreshToken") :
           \/ Attempts(q, "accessToken") = {}
           \/ /\ i = 2
              /\ q.verified[1] = [cookie |-> "accessToken", ok |-> FALSE, at |-> q.at]
      /\ (Alive(q) /\ ValidAccess(q) /\ ValidRefresh(q)
            /\ q.accessToken.id # q.refreshToken.id) =>
           /\ q.handlerSaw # <<>>
           /\ \A i \in 1..Len(q.handlerSaw) : q.handlerSaw[i] = q.accessToken.id
           /\ Attempts(q, "refreshToken") = {}

\* C6: a token signed with the wrong key is never accepted: a refresh-key
\* token in the accessToken cookie fails access verification, an access-key
\* token in the refreshToken cookie fails refresh verification and mints
\* nothing (the two keys being distinct).
TheoremC6 ==
  ACCESS_TOKEN_SECRET # REFRESH_TOKEN_SECRET =>
    \A r \in Reqs :
      LET q == reqs[r] IN
        /\ (q.accessToken.kind = "jwt" /\ q.accessToken.key # ACCESS_TOKEN_SECRET) =>
             \A i \in Attempts(q, "accessToken") : ~q.verified[i].ok
        /\ (q.refreshToken.kind = "jwt" /\ q.refreshToken.key # REFRESH_TOKEN_SECRET) =>
             /\ \A i \in Attempts(q, "refreshToken") : ~q.verified[i].ok
             /\ q.setCookies = <<>>
        /\ (/\ q.accessToken.kind = "jwt" /\ q.accessToken.key # ACCESS_TOKEN_SECRET
            /\ q.refreshToken.kind = "jwt" /\ q.refreshToken.key # REFRESH_TOKEN_SECRET) =>
             q.nextCalls = 0 /\ q.userId = Undefined

\* the two unexpired tokens of a login were presented in each other's cookie
\* and the request was rejected after both verifications
WitnessC6 ==
  \E r \in Reqs :
    LET q == reqs[r] IN
      /\ q.pc = "done" /\ q.status = 401
      /\ SignedAndFresh(q.accessToken, REFRESH_TOKEN_SECRET, q.at)
      /\ SignedAndFresh(q.refreshToken, ACCESS_TOKEN_SECRET, q.at)
      /\ Len(q.verified) = 2

\* what the client sees of a finished request
Response(q) == [status |-> q.status, body |-> q.body, setCookies |-> q.setCookies]

\* the request is finished and no verification of a token of it succeeded
AuthenticationFailed(q) ==
  q.pc = "done" /\ \A i \in 1..Len(q.verified) : ~q.verified[i].ok

\* C7: every authentication failure gives the client the same response, 401
\* with body {error: "Unauthorized"} and no cookie, whatever the cause: no
\* tokens, access invalid without refresh, access invalid and refresh invalid.
TheoremC7 ==
  /\ \A r \in Reqs :
       AuthenticationFailed(reqs[r]) =>
         Response(reqs[r]) = [status |-> 401, body |-> "Unauthorized", setCookies |-> <<>>]
  /\ \A r1, r2 \in Reqs :
       (AuthenticationFailed(reqs[r1]) /\ AuthenticationFailed(reqs[r2])) =>
         Response(reqs[r1]) = Response(reqs[r2])

\* a request failed on both tokens: the server's log tells the cause, the
\* response does not
WitnessC7 ==
  \E r \in Reqs :
    LET q == reqs[r] IN
      /\ AuthenticationFailed(q)
      /\ Len(q.verified) = 2
      /\ \E i \in 1..Len(q.logs) :
           q.logs[i].message = "Auth failed - Invalid refresh token"
      /\ q.status = 401

\* one request: at most one Set-Cookie, for accessToken only, and only after
\* the refresh token verified against the refresh key
MintsOnlyFromRefresh(q) ==
  /\ Len(q.setCookies) <= 1
  /\ \A i \in 1..Len(q.setCookies) :
       /\ q.setCookies[i].name = "accessToken"
       /\ SignedAndFresh(q.refreshToken, REFRESH_TOKEN_SECRET, q.setCookies[i].value.iat)
       /\ \E j \in Attempts(q, "refreshToken") : q.verified[j].ok
       /\ q.setCookies[i].value.id = q.refreshToken.id

TheoremC9 ==
  /\ \A tok \in issued :
       tok.key = REFRESH_TOKEN_SECRET => tok.exp = tok.iat + SevenDays
  /\ \A r \in Reqs :
       LET q == reqs[r] IN
         /\ (q.refreshToken.kind = "jwt" /\ q.refreshToken.key = REFRESH_TOKEN_SECRET) =>
              \A i \in Attempts(q, "refreshToken") :
                q.verified[i].ok <=> q.verified[i].at < q.refreshToken.iat + SevenDays
         /\ \A i \in 1..Len(q.setCookies) : q.setCookies[i].name # "refreshToken"

\* a refresh token was accepted in the last second of its seven days
WitnessC9 ==
  \E r \in Reqs :
    LET q == reqs[r] IN
      /\ q.refreshToken.kind = "jwt" /\ q.refreshToken.key = REFRESH_TOKEN_SECRET
      /\ \E i \in Attempts(q, "refreshToken") :
           q.verified[i].ok /\ q.verified[i].at = q.refreshToken.iat + SevenDays - 1

\* C10: no crash path on bad credentials: a failed verification is an
\* ordinary failed attempt, and a request ends either with the handler having
\* resolved or with 401; no request ends with an error of verification.
TheoremC10 ==
  \A r \in Reqs :
    LET q == reqs[r] IN
      /\ q.pc \in {"idle", "next", "done"}
      /\ q.pc = "done" =>
           \/ q.outcome = "proceeded" /\ q.status = 0 /\ q.nextCalls >= 1
           \/ q.outcome = "unauthorized" /\ q.status = 401 /\ q.body = "Unauthorized"
      /\ (Alive(q) /\ \A i \in 1..Len(q.verified) : ~q.verified[i].ok) =>
           q.pc = "done" /\ q.outcome = "unauthorized"

\* a malformed accessToken cookie and a token of the other kind in the
\* refreshToken cookie both failed verification and the request ended in 401
WitnessC10 ==
  \E r \in Reqs :
    LET q == reqs[r] IN
      /\ q.pc = "done" /\ q.outcome = "unauthorized"
      /\ q.accessToken = Malformed
      /\ q.refreshToken.kind = "jwt" /\ q.refreshToken.key = ACCESS_TOKEN_SECRET
      /\ Len(q.verified) = 2

\* C11: the same valid, unexpired access token validated in two separate
\* requests gives the same userId both times and no cookie is written either
\* time.
ClaimC11 ==
  \A r1, r2 \in Reqs :
    LET q1 == reqs[r1]
        q2 == reqs[r2]
    IN (/\ r1 # r2 /\ Alive(q1) /\ Alive(q2)
        /\ q1.accessToken = q2.accessToken
        /\ ValidAccess(q1) /\ ValidAccess(q2)) =>
         /\ q1.userId = q1.accessToken.id /\ q2.userId = q1.userId
         /\ q1.setCookies = <<>> /\ q2.setCookies = <<>>

\* the Context after the promise of next() resolved
AfterResolve(q) ==
  [q EXCEPT !.pc = "done", !.path = "none", !.outcome = "proceeded"]

\* the Context after the promise of next() rejected at the given instant
AfterReject(q, clock) ==
  IF q.path = "access" THEN AccessCatch(q, clock) ELSE RefreshCatch(q)

\* what one step of its own handler makes of a request
OwnSteps(q) ==
  IF q.pc = "next"
  THEN {AfterResolve(q)}
         \cup {AfterReject(q, clock) : clock \in {t \in Instants : q.at <= t /\ t <= now}}
  ELSE {}

\* every Context a request with these cookies, received at this instant, can
\* have when it is the only request the server ever handles
Alone(accessToken, refreshToken, at) ==
  LET s0 == {authMiddleware([IdleReq EXCEPT !.accessToken = accessToken,
                                            !.refreshToken = refreshToken,
                                            !.at = at], at)}
      s1 == UNION {OwnSteps(q) : q \in s0}
      s2 == UNION {OwnSteps(q) : q \in s1}
  IN s0 \cup s1 \cup s2

\* C12: requests are authenticated independently: under any interleaving of
\* concurrent requests the Context of each request (401 or proceed, userId,
\* cookie written) is one it can have when processed alone, and a handler
\* never sees the userId of another request.
TheoremC12 ==
  \A r \in Reqs :
    LET q == reqs[r] IN
      Alive(q) =>
        /\ q \in Alone(q.accessToken, q.refreshToken, q.at)
        /\ \A i \in 1..Len(q.handlerSaw) :
             q.handlerSaw[i] \in {q.accessToken.id, q.refreshToken.id}

\* while the handler of a request of u1 was still running, a request of u2
\* was renewed from its refresh token and finished
WitnessC12 ==
  /\ reqs["r1"].pc = "next" /\ reqs["r1"].userId = "u1"
  /\ reqs["r2"].pc = "done" /\ reqs["r2"].userId = "u2"
  /\ Len(reqs["r2"].setCookies) = 1
  /\ reqs["r1"].at < reqs["r2"].at

----------------------------------------------------------------------------
(* Properties of the routes of /api/v1 *)

\* C13: every accessToken or refreshToken cookie the server sets (at login,
\* at register, and the access cookie authMiddleware renews) carries path "/",
\* HttpOnly, Secure and SameSite=Strict, so the renewed access cookie has
\* exactly the attributes of the one set at login.
TheoremC13 ==
  \A r \in Reqs :
    \A i \in 1..Len(reqs[r].setCookies) :
      LET cookie == reqs[r].setCookies[i] IN
        cookie.value.kind = "jwt" =>
          /\ cookie.name \in {"accessToken", "refreshToken"}
          /\ cookie.options = [path |-> "/", httpOnly |-> TRUE, secure |-> TRUE,
                               sameSite |-> "strict"]

\* a user registered, kept the two cookies of the response, and an hour later
\* a request of theirs has its access cookie renewed
WitnessC13 ==
  \E r \in Reqs :
    /\ Len(reqs[r].setCookies) > 0
    /\ reqs[r].setCookies[1].name = "accessToken"
    /\ reqs[r].setCookies[1].value.kind = "jwt"
    /\ reqs[r].setCookies[1].value.id = "u3"
    /\ reqs[r].setCookies[1].value.iat = OneHour
    /\ reqs[r].route # "POST /auth/register"
    /\ \E t \in issued : t.id = "u3" /\ t.key = REFRESH_TOKEN_SECRET

\* routes with injectUser in front of their handler
Injected == UserRoutes \cup ProfileRoutes

\* what injectUser made of a request it has just run for
InjectUserDecides(r) ==
  LET q == reqs[r]
      q1 == reqs'[r]
      found == {u \in users : u.id = q.userId}
  IN (q.pc = "next" /\ q.stage = "inject" /\ q1 # q) =>
       /\ q.route \in Injected /\ q.nextCalls = 1 /\ ~q.ran /\ users' = users
       /\ q.userId = Undefined =>
            q1.pc = "done" /\ q1.status = 401 /\ ~q1.ran /\ q1.user = NoUser
       /\ (q.userId # Undefined /\ found = {} /\ ~q1.fault) =>
            /\ q1.pc = "done" /\ q1.status = 404 /\ q1.body = "User not found"
            /\ ~q1.ran /\ q1.user = NoUser
       /\ q1.stage = "handler" <=> (q.userId # Undefined /\ found # {} /\ ~q1.fault)
       /\ q1.stage = "handler" =>
            /\ q1.pc = "next"
            /\ DOMAIN q1.user = {"id", "email", "createdAt", "updatedAt"}
            /\ \E u \in found :
                 /\ q1.user.id = u.id /\ q1.user.email = u.email
                 /\ q1.user.createdAt = u.createdAt
                 /\ q1.user.updatedAt = u.updatedAt

\* C14: after authMiddleware succeeds, injectUser resolves userId against the
\* user store before the handler runs: 401 when userId is absent, 404 "User
\* not found" when no user has that id, and only when the user exists is the
\* record (id, email, createdAt, updatedAt) attached and the handler called;
\* a handler behind injectUser, the withUser handler of /profile included,
\* never runs without a user in context.
TheoremC14 ==
  /\ [](\A r \in Reqs :
          (reqs[r].route \in Injected /\ reqs[r].ran) =>
            /\ reqs[r].user # NoUser
            /\ reqs[r].user.id = reqs[r].userId
            /\ reqs[r].dbOps[1].by = "injectUser")
  /\ [][\A r \in Reqs : InjectUserDecides(r)]_vars

\* u2 was deleted while holding valid cookies: the next request of u2 to
\* /profile passes authMiddleware and is answered 404 by injectUser
WitnessC14 ==
  \E r \in Reqs :
    /\ reqs[r].route = "GET /profile" /\ reqs[r].userId = "u2"
    /\ reqs[r].nextCalls = 1 /\ reqs[r].pc = "done"
    /\ reqs[r].status = 404 /\ reqs[r].body = "User not found"
    /\ ~reqs[r].ran
    /\ \A u \in users : u.id # "u2"

\* C15: a POST /auth/login with a registered email and the password of the
\* stored hash responds 201 and sets both cookies, an access token expiring
\* one hour after issuance signed with the access key and a refresh token
\* expiring seven days after issuance signed with the refresh key, both with
\* the id of the user of that email; a following request carrying these
\* cookies (while the refresh token lasts) is authenticated as that user.
TheoremC15 ==
  \A r \in Reqs :
    LET q == reqs[r] IN
      /\ (/\ q.route = "POST /auth/login" /\ q.pc = "done" /\ ~q.fault) =>
           \A u \in users :
             (u.email = q.email /\ u.password = <<"bcrypt", q.password>>) =>
               /\ q.status = 201
               /\ Len(q.setCookies) = 2
               /\ q.setCookies[1].name = "accessToken"
               /\ q.setCookies[2].name = "refreshToken"
               /\ \E iat \in q.at..now :
                    /\ q.setCookies[1].value =
                         [kind |-> "jwt", key |-> ACCESS_TOKEN_SECRET, id |-> u.id,
                          iat |-> iat, exp |-> iat + 3600]
                    /\ q.setCookies[2].value =
                         [kind |-> "jwt", key |-> REFRESH_TOKEN_SECRET, id |-> u.id,
                          iat |-> iat, exp |-> iat + 604800]
      /\ (/\ q.pc # "idle"
          /\ q.route \in Injected \cup {"POST /auth/logout"}
          /\ q.accessToken.kind = "jwt" /\ q.refreshToken.kind = "jwt"
          /\ q.accessToken.key = ACCESS_TOKEN_SECRET
          /\ q.refreshToken.key = REFRESH_TOKEN_SECRET
          /\ q.accessToken.id = q.refreshToken.id
          /\ q.accessToken.iat = q.refreshToken.iat
          /\ q.accessToken.exp = q.accessToken.iat + 3600
          /\ q.refreshToken.exp = q.refreshToken.iat + 604800
          /\ q.at < q.refreshToken.exp) =>
           /\ q.nextCalls = 1
           /\ q.handlerSaw = <<q.accessToken.id>>
           /\ q.userId = q.accessToken.id
           /\ q.status # 401

\* u2 logged in at the end of the first hour, kept the cookies of the
\* response, and a request carrying them has passed authMiddleware as u2
WitnessC15 ==
  \E r \in Reqs :
    /\ reqs[r].route \in Injected /\ reqs[r].nextCalls = 1
    /\ reqs[r].userId = "u2"
    /\ reqs[r].accessToken.iat = OneHour /\ reqs[r].refreshToken.iat = OneHour
    /\ reqs[r].accessToken.id = "u2" /\ reqs[r].refreshToken.id = "u2"
    /\ reqs[r].accessToken \in issued /\ reqs[r].refreshToken \in issued

\* the header tells the client to drop the cookie of that name
Deletes(header, name) ==
  /\ header.name = name
  /\ header.value.kind = "empty"
  /\ "maxAge" \in DOMAIN header.options
  /\ header.options.maxAge = 0

\* the cookie jar of a client after one Set-Cookie header: the header replaces
\* the cookie of its name and path, and with Max-Age=0 leaves none
ApplySetCookie(jar, header) ==
  LET others == {ck \in jar : ~(ck.name = header.name /\ ck.path = header.options.path)}
  IN IF "maxAge" \in DOMAIN header.options /\ header.options.maxAge = 0
     THEN others
     ELSE others \cup {[name |-> header.name, path |-> header.options.path,
                        value |-> header.value]}

RECURSIVE ApplySetCookies(_, _)
\* the jar after the Set-Cookie headers of a response, applied in order
ApplySetCookies(jar, headers) ==
  IF headers = <<>> THEN jar
  ELSE ApplySetCookies(ApplySetCookie(jar, Head(headers)), Tail(headers))

\* the jar of the client that sent the request: the cookies it carried
JarOf(q) ==
  {[name |-> "accessToken", path |-> "/", value |-> q.accessToken],
   [name |-> "refreshToken", path |-> "/", value |-> q.refreshToken]}

\* C16: POST /auth/logout is reached only through authMiddleware, and on
\* success it responds 201 with deletions of accessToken and refreshToken, so
\* that a client applying the Set-Cookie headers of the response in order
\* holds neither cookie afterwards, also when authMiddleware renewed the
\* access cookie on the same request.
TheoremC16 ==
  \A r \in Reqs :
    LET q == reqs[r] IN
      q.route = "POST /auth/logout" =>
        /\ q.ran => (q.nextCalls = 1 /\ q.userId # Undefined
                     /\ q.userId \in {q.accessToken.id, q.refreshToken.id})
        /\ (q.pc = "done" /\ q.nextCalls = 0) =>
              (q.status = 401 /\ ~q.ran /\ q.setCookies = <<>>)
        /\ (q.pc = "done" /\ q.ran /\ ~q.fault) =>
              /\ q.status = 201
              /\ \E i, j \in 1..Len(q.setCookies) :
                   /\ Deletes(q.setCookies[i], "accessToken")
                   /\ Deletes(q.setCookies[j], "refreshToken")
              /\ ApplySetCookies(JarOf(q), q.setCookies) = {}

\* a logout whose access token had expired: the response renews the access
\* cookie and then deletes both cookies
WitnessC16 ==
  \E r \in Reqs :
    /\ reqs[r].route = "POST /auth/logout" /\ reqs[r].pc = "done"
    /\ reqs[r].status = 201
    /\ Len(reqs[r].setCookies) = 3
    /\ reqs[r].setCookies[1].value.kind = "jwt"

\* C17: passwords are stored bcrypt-hashed: in every reachable state each row
\* of the user store, the rows created by POST /auth/register and POST /users
\* included, holds a bcrypt hash of the submitted password and never the
\* plaintext.
ClaimC17 ==
  \A u \in users :
    (\E i \in 1..Len(NewIds) : u.id = NewIds[i]) =>
      /\ u.password[1] = "bcrypt"
      /\ u.password # <<"text", u.password[2]>>

\* authMiddleware and then injectUser have both succeeded for the request
PassedBoth(q) ==
  /\ q.nextCalls = 1
  /\ ValidAccess(q) \/ ValidRefresh(q)
  /\ q.userId # Undefined
  /\ q.userId \in {q.accessToken.id, q.refreshToken.id}
  /\ Len(q.dbOps) >= 1
  /\ q.dbOps[1] = [by |-> "injectUser", op |-> "findUnique"]
  /\ q.user # NoUser
  /\ q.user.id = q.userId

\* C18: on every route under /users and /profile the handler runs, and the
\* user store is read or modified by it, only after authMiddleware and then
\* injectUser have both succeeded for that request; a request that is not
\* authenticated never reads, creates, updates or deletes a user.
TheoremC18 ==
  /\ [](\A r \in Reqs :
          LET q == reqs[r] IN
            q.route \in Injected =>
              /\ (q.ran \/ \E i \in 1..Len(q.dbOps) : q.dbOps[i].by = "handler")
                   => PassedBoth(q)
              /\ (q.pc # "idle" /\ ~ValidAccess(q) /\ ~ValidRefresh(q)) =>
                   (~q.ran /\ q.dbOps = <<>> /\ q.status = 401))
  /\ [][users' # users =>
          \E r \in Reqs :
            /\ reqs'[r].ran /\ ~reqs[r].ran
            /\ reqs'[r].route \in Injected => PassedBoth(reqs'[r])
            /\ reqs'[r].route \in Injected \cup {"POST /auth/register"}]_vars

\* an authenticated DELETE /users/u2 went through both middlewares and then
\* deleted the row
WitnessC18 ==
  \E r \in Reqs :
    /\ reqs[r].route = "DELETE /users/:id" /\ reqs[r].pc = "done"
    /\ reqs[r].status = 200 /\ reqs[r].ran
    /\ reqs[r].dbOps = <<[by |-> "injectUser", op |-> "findUnique"],
                         [by |-> "handler", op |-> "delete"]>>
    /\ \A u \in users : u.id # "u2"

\* the request asks for a write that would give a row an email another row
\* already holds
WouldDuplicate(q) ==
  \/ /\ q.route \in {"POST /auth/register", "POST /users"}
     /\ PasswordLength[q.password] >= 6
     /\ \E u \in users : u.email = q.email
  \/ /\ q.route = "PUT /users/:id"
     /\ q.email # ""
     /\ \E u \in users : u.email = q.email /\ u.id # q.param

\* the handler of the request has just replied to a write that would
\* duplicate an email
DuplicateRejected(r) ==
  LET q == reqs[r]
      q1 == reqs'[r]
  IN (q.pc = "next" /\ q.stage = "handler" /\ q1.pc = "done" /\ WouldDuplicate(q)) =>
       /\ users' = users
       /\ q1.status >= 400
       /\ q1.setCookies = q.setCookies
       /\ q.route = "POST /auth/register" =>
            /\ q1.setCookies = <<>>
            /\ ~q1.fault => (q1.status = 409 /\ q1.body = "User already exists")

\* C19: in every reachable state of the user store no two users share an
\* email; a register, POST /users or PUT /users/:id that would give a user an
\* email another user holds is rejected and leaves the store unchanged, and
\* POST /auth/register then responds 409 "User already exists" and sets no
\* cookie.
TheoremC19 ==
  /\ [](\A u, v \in users : (u.email = v.email \/ u.id = v.id) => u = v)
  /\ [][\A r \in Reqs : DuplicateRejected(r)]_vars

\* after a user was created with a new email, a register with the email of
\* u2 was answered 409 and the store kept its rows
WitnessC19 ==
  \E r \in Reqs :
    /\ reqs[r].route = "POST /auth/register" /\ reqs[r].pc = "done"
    /\ reqs[r].email = "b@x.io"
    /\ reqs[r].status = 409 /\ reqs[r].setCookies = <<>>
    /\ \E u \in users : u.id = "u3"
    /\ \E u \in users : u.id = "u2" /\ u.email = "b@x.io"

\* the handler of a route that names a user by id has just replied to a
\* request whose id no row has
MissingUserIs404(r) ==
  LET q == reqs[r]
      q1 == reqs'[r]
  IN (/\ q.pc = "next" /\ q.stage = "handler" /\ q1.pc = "done"
      /\ q.route \in {"GET /users/:id", "PUT /users/:id", "DELETE /users/:id"}
      /\ q.nextCalls = 1 /\ q.user # NoUser
      /\ \A u \in users : u.id # q.param
      /\ q.email # "not-an-email"
      /\ ~q1.fault) =>
       /\ q1.status = 404
       /\ q1.body = "User not found"
       /\ users' = users

\* C20: for an authenticated request naming an id that is not in the user
\* store, GET /users/:id, PUT /users/:id with a valid body and
\* DELETE /users/:id each respond 404 "User not found" and leave the store
\* unchanged; a 500 is returned only for failures other than a missing user.
ClaimC20 == [][\A r \in Reqs : MissingUserIs404(r)]_vars

\* the status and body the login handler gives a failed login, by its cause
LoginFailure(q) ==
  LET found == {u \in users : u.email = q.email} IN
    /\ found = {} => (q.status = 404 /\ q.body = "User not registered")
    /\ (\E u \in found : u.password = <<"null", "">>
                         \/ u.password # <<"bcrypt", q.password>>) =>
         (q.status = 401 /\ q.body = "Invalid password")

\* the login handler has answered the request
LoginDone(q) == q.route = "POST /auth/login" /\ q.pc = "done"

RegisterAddsOne(r) ==
  LET q == reqs[r]
      q1 == reqs'[r]
      accepted == q.email \notin {"", "not-an-email"} /\ q.password \notin {"", "12345"}
  IN (/\ q.route = "POST /auth/register" /\ q.pc = "next" /\ q1.pc = "done") =>
       /\ (accepted /\ ~q1.fault /\ \A u \in users : u.email # q.email) =>
            q1.status = 201
       /\ q1.status # 201 => (users' = users /\ q1.setCookies = <<>>)
       /\ q1.status = 201 =>
            /\ Cardinality(users') = Cardinality(users) + 1
            /\ \E row \in users' :
                 /\ users' = users \cup {row}
                 /\ \A u \in users : u.id # row.id /\ u.email # row.email
                 /\ row.email = q.email
                 /\ row.password = <<"bcrypt", q.password>>
                 /\ Len(q1.setCookies) = 2
                 /\ q1.setCookies[1].name = "accessToken"
                 /\ q1.setCookies[1].value =
                      [kind |-> "jwt", key |-> ACCESS_TOKEN_SECRET, id |-> row.id,
                       iat |-> now, exp |-> now + 3600]
                 /\ q1.setCookies[2].name = "refreshToken"
                 /\ q1.setCookies[2].value =
                      [kind |-> "jwt", key |-> REFRESH_TOKEN_SECRET, id |-> row.id,
                       iat |-> now, exp |-> now + 604800]

\* a login with the email and password of a row that register created
LoginAfterRegister(q) ==
  \A u \in users :
    (/\ \E i \in 1..Len(NewIds) : u.id = NewIds[i]
     /\ u.email = q.email
     /\ u.password = <<"bcrypt", q.password>>) =>
      /\ q.status = 201
      /\ Len(q.setCookies) = 2
      /\ q.setCookies[1].value.kind = "jwt" /\ q.setCookies[1].value.id = u.id
      /\ q.setCookies[2].value.kind = "jwt" /\ q.setCookies[2].value.id = u.id
      /\ q.setCookies[1].value.key = ACCESS_TOKEN_SECRET
      /\ q.setCookies[2].value.key = REFRESH_TOKEN_SECRET

\* C22: a successful POST /auth/register adds exactly one user to the store,
\* responds 201 and sets both cookies with tokens of the new user's id (access
\* one hour, refresh seven days); afterwards POST /auth/login with the same
\* email and password succeeds with tokens for that id, for as long as the
\* user is not deleted and its email is unchanged.
TheoremC22 ==
  /\ [][\A r \in Reqs : RegisterAddsOne(r)]_vars
  /\ [](\A r \in Reqs :
          (reqs[r].route = "POST /auth/login" /\ reqs[r].pc = "done"
           /\ ~reqs[r].fault) => LoginAfterRegister(reqs[r]))

\* c@x.io registered at instant 0 and logged in an hour later: the login is
\* answered 201 with tokens of the id register gave
WitnessC22 ==
  \E r \in Reqs :
    /\ reqs[r].route = "POST /auth/login" /\ reqs[r].pc = "done"
    /\ reqs[r].email = "c@x.io" /\ reqs[r].status = 201
    /\ reqs[r].setCookies[1].value.id = "u3"
    /\ reqs[r].setCookies[1].value.iat = OneHour
    /\ \E u \in users : u.id = "u3" /\ u.createdAt = 0 /\ u.email = "c@x.io"

----------------------------------------------------------------------------
(* Properties of the Logger *)

\* the file has a line with this level and message
HasLine(filename, level, message) ==
  \E j \in 1..Len(FileContent(logger.files, filename)) :
    /\ logger.files[filename][j].level = level
    /\ logger.files[filename][j].message = message

\* C23: log files are separated by level with one combined file: every entry
\* logged at any level (info, warn, error, debug) is appended to the day's
\* info log file, while the day's warn, error and debug files contain only
\* entries of their own level.
TheoremC23 ==
  /\ \A i \in 1..Len(logger.calls) :
       LET call == logger.calls[i] IN
         /\ call.wrote[2] => HasLine(<<call.infoDay, "info">>, call.level, call.message)
         /\ call.wrote[1] => HasLine(<<call.day, call.level>>, call.level, call.message)
  /\ \A filename \in DOMAIN logger.files :
       /\ filename[2] \in {"info", "warn", "error", "debug"}
       /\ filename[2] # "info" =>
            \A j \in 1..Len(logger.files[filename]) :
              logger.files[filename][j].level = filename[2]
       /\ \A j \in 1..Len(logger.files[filename]) :
            \E i \in 1..Len(logger.calls) :
              /\ logger.calls[i].level = logger.files[filename][j].level
              /\ logger.calls[i].message = logger.files[filename][j].message
              /\ filename[1] \in {logger.calls[i].day, logger.calls[i].infoDay}

\* after midnight a warning and a debug entry were logged: the info file of
\* the second day holds both, the warn and debug files one each
WitnessC23 ==
  /\ Len(FileContent(logger.files, <<1, "info">>)) = 2
  /\ logger.files[<<1, "info">>][1].level = "warn"
  /\ logger.files[<<1, "info">>][2].level = "debug"
  /\ Len(FileContent(logger.files, <<1, "warn">>)) = 1
  /\ Len(FileContent(logger.files, <<1, "debug">>)) = 1

----------------------------------------------------------------------------
(* The handler's failure and the length of a session *)

\* the request's access token has been verified successfully
AccessVerified(q) ==
  \E i \in 1..Len(q.verified) :
    q.verified[i].cookie = "accessToken" /\ q.verified[i].ok

\* C24: authMiddleware calls next() at most once per request, and a failure
\* of the downstream handler after a successful access-token verification is
\* not treated as a failed verification: the refresh token is not verified,
\* no accessToken cookie is minted or set, and the response is not a 401.
ClaimC24 ==
  \A r \in Reqs :
    LET q == reqs[r] IN
      /\ q.nextCalls <= 1
      /\ AccessVerified(q) =>
           /\ \A i \in 1..Len(q.verified) : q.verified[i].cookie # "refreshToken"
           /\ q.setCookies = <<>>
           /\ q.status # 401

\* the refresh tokens signed so far: each one is the start of a session
RefreshTokens == {tok \in issued : tok.key = REFRESH_TOKEN_SECRET}

\* the cookie a verification of the request read
VerifiedToken(q, i) ==
  IF q.verified[i].cookie = "accessToken" THEN q.accessToken ELSE q.refreshToken

\* some login of that user at a time t has clock in [t, t + 7 days + 1 hour)
InSession(id, clock) ==
  \E login \in RefreshTokens :
    /\ login.id = id
    /\ login.iat <= clock
    /\ clock < login.iat + SevenDays + OneHour

\* every cookie authMiddleware sets is an accessToken that lives one hour
OnlyHourTokensMinted ==
  \A r \in Reqs : \A i \in 1..Len(reqs[r].setCookies) :
    LET header == reqs[r].setCookies[i] IN
      /\ header.name = "accessToken"
      /\ header.value.key = ACCESS_TOKEN_SECRET
      /\ header.value.exp = header.value.iat + OneHour

\* C25: a session cannot be prolonged without a new login. The refresh path
\* mints only 1-hour access tokens and never a refresh token, every refresh
\* token the client holds lives 7 days from its login, and every verification
\* by which authMiddleware authenticates a request happens before
\* t + 7 days + 1 hour, where t is the time of a login of that user.
TheoremC25 ==
  /\ OnlyHourTokensMinted
  /\ \A login \in RefreshTokens : login.exp = login.iat + SevenDays
  /\ \A r \in Reqs : \A i \in 1..Len(reqs[r].verified) :
       reqs[r].verified[i].ok =>
         InSession(VerifiedToken(reqs[r], i).id, reqs[r].verified[i].at)

\* the only login was at time 0, the access token was renewed in the last
\* hour of the refresh token, and a request is authenticated by the renewed
\* token after the seventh day
WitnessC25 ==
  /\ \A login \in RefreshTokens : login.iat = 0
  /\ \E r \in Reqs :
       /\ reqs[r].nextCalls = 1
       /\ reqs[r].path = "access"
       /\ reqs[r].at > SevenDays
       /\ reqs[r].accessToken.iat > 0

====
